---- MODULE Spec2Model ----
(***************************************************************************)
(* The rule indexing and recommendation engine of rules.d:                 *)
(*   RuleLoader   (utils/rule-loader.ts)     discovery and metadata        *)
(*   RuleAnalyzer (analyzer/rule-analyzer.ts) queries and bundles          *)
(*   MCP server   (mcp/server.ts) and CLI (cli/index.ts): tools over both  *)
(* Strings are TLA+ strings; String.prototype.includes and toLowerCase are *)
(* computed character by character.  A front-matter value is a tagged      *)
(* record, so that a header may declare a field in any YAML shape.          *)
(***************************************************************************)
EXTENDS Integers, Sequences, FiniteSets, TLC

VARIABLES disk, rules, initialized, result, server

vars == <<disk, rules, initialized, result, server>>

----------------------------------------------------------------------------
(* JavaScript values and strings *)

Undefined == [t |-> "undefined"]
Str(s) == [t |-> "string", s |-> s]
Arr(a) == [t |-> "array", a |-> a]
Num(n) == [t |-> "number", n |-> n]
Obj(f) == [t |-> "object", frameworks |-> f]

\* ToBoolean, as used by `||` and `if (x)`
Truthy(v) ==
  CASE v.t = "undefined" -> FALSE
    [] v.t = "string" -> v.s # ""
    [] v.t = "number" -> v.n # 0
    [] OTHER -> TRUE

\* a || b
OrElse(a, b) == IF Truthy(a) THEN a ELSE b

\* String.prototype.includes
StrIncludes(h, n) ==
  \E i \in 1..(Len(h) - Len(n) + 1) : SubSeq(h, i, i + Len(n) - 1) = n

UpperToLower ==
  [A |-> "a", B |-> "b", C |-> "c", D |-> "d", E |-> "e", F |-> "f", G |-> "g",
   H |-> "h", I |-> "i", J |-> "j", K |-> "k", L |-> "l", M |-> "m", N |-> "n",
   O |-> "o", P |-> "p", Q |-> "q", R |-> "r", S |-> "s", T |-> "t", U |-> "u",
   V |-> "v", W |-> "w", X |-> "x", Y |-> "y", Z |-> "z"]

RECURSIVE ToLowerCase(_)
ToLowerCase(s) ==
  IF s = "" THEN ""
  ELSE LET c == SubSeq(s, 1, 1)
       IN (IF c \in DOMAIN UpperToLower THEN UpperToLower[c] ELSE c)
            \o ToLowerCase(SubSeq(s, 2, Len(s)))

SeqToSet(q) == {q[i] : i \in 1..Len(q)}

\* Array.prototype.filter
Filter(q, Keep(_)) == SelectSeq(q, Keep)

\* x.includes(y): Array.prototype.includes on an array, String.prototype.includes
\* on a string; any other value has no includes method (TypeError).
HasIncludes(v) == v.t \in {"array", "string"}

JsIncludes(v, y) ==
  CASE v.t = "array" -> y \in SeqToSet(v.a)
    [] v.t = "string" -> StrIncludes(v.s, y)
    [] OTHER -> FALSE

----------------------------------------------------------------------------
(* RuleLoader *)

\* The header of a document without front matter (gray-matter: data = {})
NoHeader ==
  [id |-> Undefined, category |-> Undefined, language |-> Undefined,
   tags |-> Undefined, priority |-> Undefined, applicability |-> Undefined,
   prerequisites |-> Undefined, related |-> Undefined]

\* A file on disk: its path below rulesDir (segments, the last one the file
\* name), its parsed header and its body.  io is "ok", "missing" (existsSync
\* is false) or "error" (readFileSync throws); yaml is "ok" or "malformed"
\* (the front-matter parser throws).
File(path, header, body) ==
  [path |-> path, fm |-> header, body |-> body, io |-> "ok", yaml |-> "ok"]

Last(q) == q[Len(q)]

EndsWith(s, suffix) ==
  /\ Len(s) >= Len(suffix)
  /\ SubSeq(s, Len(s) - Len(suffix) + 1, Len(s)) = suffix

\* path.basename(filePath, '.md')
Basename(path) ==
  LET b == Last(path)
  IN IF EndsWith(b, ".md") /\ b # ".md" THEN SubSeq(b, 1, Len(b) - 3) ELSE b

IgnoredDirs == {"node_modules", "dist", "build"}

Ignored(path) == \E i \in 1..(Len(path) - 1) : path[i] \in IgnoredDirs

\* glob '**/rules.md'
MatchesRulesMd(path) == Last(path) = "rules.md"

\* glob '**/*-rules.md'
MatchesDashRulesMd(path) == EndsWith(Last(path), "-rules.md")

RECURSIVE Dedup(_)
Dedup(q) ==
  IF q = <<>> THEN <<>>
  ELSE LET r == Dedup(SubSeq(q, 1, Len(q) - 1))
       IN IF Last(q) \in SeqToSet(r) THEN r ELSE Append(r, Last(q))

\* the second pattern is '**/*rules.md' and the matches are not coalesced
FindRuleFilesOverlapping(d) ==
  LET m1(f) == MatchesRulesMd(f.path) /\ ~Ignored(f.path)
      m2(f) == EndsWith(Last(f.path), "rules.md") /\ ~Ignored(f.path)
  IN Filter(d, m1) \o Filter(d, m2)

\* findRuleFiles: the matches of the first pattern, then those of the second,
\* each in traversal order; [...new Set(files)] keeps first occurrences.
FindRuleFiles(d) ==
  LET m1(f) == MatchesRulesMd(f.path) /\ ~Ignored(f.path)
      m2(f) == MatchesDashRulesMd(f.path) /\ ~Ignored(f.path)
  IN Dedup(Filter(d, m1) \o Filter(d, m2))

validCategories ==
  <<"general", "coding", "writing", "research", "communication", "data",
    "project-management", "security", "devops">>

\* inferCategory without the check against validCategories
inferCategoryUnchecked(dirName) == dirName

inferCategory(dirName) ==
  IF dirName \in SeqToSet(validCategories) THEN dirName ELSE "general"

\* Object.entries(languageMap), in insertion order
languageMap ==
  << <<"python", "python">>, <<"javascript", "javascript">>,
     <<"typescript", "typescript">>, <<"go", "go">>, <<"rust", "rust">>,
     <<"java", "java">>, <<"csharp", "csharp">>, <<"c#", "csharp">> >>

RECURSIVE MapSnd(_)
MapSnd(q) == IF q = <<>> THEN <<>> ELSE <<Head(q)[2]>> \o MapSnd(Tail(q))

inferLanguage(filename, content) ==
  LET lowerName == ToLowerCase(filename)
      contentLower == ToLowerCase(content)
      inName(e) == StrIncludes(lowerName, e[1])
      inBody(e) == StrIncludes(contentLower, e[1])
      nameHits == Filter(languageMap, inName)
      languages == MapSnd(Filter(languageMap, inBody))
  IN IF nameHits # <<>> THEN Str(Head(nameHits)[2])
     ELSE IF Len(languages) > 0 THEN Arr(languages) ELSE Str("universal")

\* Object.entries(commonTags), in insertion order
commonTags ==
  << <<"performance", <<"performance", "optimization">> >>,
     <<"security", <<"security">> >>,
     <<"testing", <<"testing", "tdd", "unit-tests">> >>,
     <<"accessibility", <<"accessibility", "a11y">> >>,
     <<"best-practices", <<"best-practices">> >> >>

RECURSIVE Flatten(_)
Flatten(q) == IF q = <<>> THEN <<>> ELSE Head(q)[2] \o Flatten(Tail(q))

\* generateTags without the "at least one tag" fallback
generateTagsNoFallback(filename, content) ==
  LET lowerFilename == ToLowerCase(filename)
      lowerContent == ToLowerCase(content)
      hit(e) == StrIncludes(lowerFilename, e[1]) \/ StrIncludes(lowerContent, e[1])
  IN Dedup(Flatten(Filter(commonTags, hit)))

\* generateTags: a Set keeps insertion order and drops repeats
generateTags(filename, content) ==
  LET lowerFilename == ToLowerCase(filename)
      lowerContent == ToLowerCase(content)
      hit(e) == StrIncludes(lowerFilename, e[1]) \/ StrIncludes(lowerContent, e[1])
      tags == Dedup(Flatten(Filter(commonTags, hit)))
  IN IF Len(tags) = 0 THEN <<"best-practices">> ELSE tags

\* generateMetadata (the fields the engine reads)
generateMetadata(path, frontmatter, content) ==
  LET category == inferCategory(path[1])
      filename == Basename(path)
  IN [id |-> OrElse(frontmatter.id, Str(filename)).s,
      category |-> category,
      language |-> inferLanguage(filename, content),
      tags |-> OrElse(frontmatter.tags, Arr(generateTags(filename, content))),
      priority |-> frontmatter.priority,
      applicability |-> frontmatter.applicability,
      prerequisites |-> frontmatter.prerequisites,
      related |-> frontmatter.related]

\* loadRule: <<>> for null or a thrown error, <<rule>> otherwise
loadRule(f) ==
  IF f.io # "ok" \/ f.yaml # "ok" THEN <<>>
  ELSE << [metadata |-> generateMetadata(f.path, f.fm, f.body),
           filePath |-> f.path] >>

RECURSIVE LoadEach(_)
LoadEach(fs) ==
  IF fs = <<>> THEN <<>> ELSE loadRule(Head(fs)) \o LoadEach(Tail(fs))

\* no try/catch around loadRule: the first failing file rejects the whole load
loadAllRulesAbortOnError(d) ==
  IF \E i \in 1..Len(FindRuleFiles(d)) : FindRuleFiles(d)[i].io # "ok"
  THEN <<>>
  ELSE LoadEach(FindRuleFiles(d))

\* loadAllRules: a null rule is not pushed, a throwing file is logged and skipped
loadAllRules(d) == LoadEach(FindRuleFiles(d))

----------------------------------------------------------------------------
(* RuleAnalyzer: queries *)

\* The outcome of a call: it threw, or it returned list
Threw == [threw |-> TRUE, list |-> <<>>]
Returned(list) == [threw |-> FALSE, list |-> list]

\* searchByTags: tags.some calls rule.metadata.tags.includes for the first
\* query tag of every rule, so a rule whose tags value has no includes method
\* makes the filter throw as soon as the query is not empty.
searchByTags(rs, tags) ==
  LET match(rule) == \E i \in 1..Len(tags) : JsIncludes(rule.metadata.tags, tags[i])
  IN IF Len(tags) > 0 /\ \E i \in 1..Len(rs) : ~HasIncludes(rs[i].metadata.tags)
     THEN Threw
     ELSE Returned(Filter(rs, match))

\* searchByLanguage without the universal sentinel
searchByLanguageExact(rs, language) ==
  LET ruleLangs(rule) ==
        IF rule.metadata.language.t = "array"
        THEN SeqToSet(rule.metadata.language.a)
        ELSE {rule.metadata.language.s}
      match(rule) == language \in ruleLangs(rule)
  IN Filter(rs, match)

\* searchByLanguage
searchByLanguage(rs, language) ==
  LET ruleLangs(rule) ==
        IF rule.metadata.language.t = "array"
        THEN SeqToSet(rule.metadata.language.a)
        ELSE {rule.metadata.language.s}
      match(rule) == language \in ruleLangs(rule) \/ "universal" \in ruleLangs(rule)
  IN Filter(rs, match)

\* searchByCategory
searchByCategory(rs, category) ==
  LET match(rule) == rule.metadata.category = category
  IN Filter(rs, match)

\* deduplicateRules keyed by the rule's file instead of its id
RECURSIVE deduplicateByPath(_)
deduplicateByPath(rs) ==
  IF rs = <<>> THEN <<>>
  ELSE LET r == deduplicateByPath(SubSeq(rs, 1, Len(rs) - 1))
           seen == {r[i].filePath : i \in 1..Len(r)}
       IN IF Last(rs).filePath \in seen THEN r ELSE Append(r, Last(rs))

\* deduplicateRules: the first rule of each id is kept
RECURSIVE deduplicateRules(_)
deduplicateRules(rs) ==
  IF rs = <<>> THEN <<>>
  ELSE LET r == deduplicateRules(SubSeq(rs, 1, Len(rs) - 1))
           seen == {r[i].metadata.id : i \in 1..Len(r)}
       IN IF Last(rs).metadata.id \in seen THEN r ELSE Append(r, Last(rs))

priorityOrder == [critical |-> 0, high |-> 1, medium |-> 2, low |-> 3]

\* a.metadata.priority || 'medium'
PriorityKey(rule) == OrElse(rule.metadata.priority, Str("medium")).s

\* The comparator of sortByPriority as Array.prototype.sort sees it: a key
\* that priorityOrder lacks gives undefined, the difference is NaN, and the
\* sort takes a NaN result as +0.
comparePriority(a, b) ==
  IF PriorityKey(a) \in DOMAIN priorityOrder /\ PriorityKey(b) \in DOMAIN priorityOrder
  THEN priorityOrder[PriorityKey(a)] - priorityOrder[PriorityKey(b)]
  ELSE 0

\* Array.prototype.sort as the runtime (Node, V8) computes it for an array of
\* fewer than 64 elements: the leading run is counted (and reversed when
\* strictly descending), the remaining elements are placed by binary
\* insertion.  With a consistent comparator this is the stable sort that
\* ECMAScript requires; with an inconsistent one ECMAScript leaves the order
\* to the implementation, and this is the implementation.
RECURSIVE CountRun(_, _, _)
CountRun(q, descending, idx) ==
  IF idx > Len(q) THEN Len(q)
  ELSE LET order == comparePriority(q[idx], q[idx - 1])
       IN IF (descending /\ order >= 0) \/ (~descending /\ order < 0)
          THEN idx - 1
          ELSE CountRun(q, descending, idx + 1)

RECURSIVE Reverse(_)
Reverse(q) == IF q = <<>> THEN <<>> ELSE Append(Reverse(Tail(q)), Head(q))

RECURSIVE BinarySearch(_, _, _, _)
BinarySearch(q, pivot, left, right) ==
  IF left >= right THEN left
  ELSE LET mid == left + ((right - left) \div 2)
       IN IF comparePriority(pivot, q[mid]) < 0
          THEN BinarySearch(q, pivot, left, mid)
          ELSE BinarySearch(q, pivot, mid + 1, right)

RECURSIVE BinaryInsertionSort(_, _)
BinaryInsertionSort(q, start) ==
  IF start > Len(q) THEN q
  ELSE LET pivot == q[start]
           pos == BinarySearch(q, pivot, 1, start)
       IN BinaryInsertionSort(
            SubSeq(q, 1, pos - 1) \o <<pivot>> \o SubSeq(q, pos, start - 1)
              \o SubSeq(q, start + 1, Len(q)),
            start + 1)

ArraySort(q) ==
  IF Len(q) < 2 THEN q
  ELSE LET descending == comparePriority(q[2], q[1]) < 0
           run == CountRun(q, descending, 3)
           made == IF descending
                   THEN Reverse(SubSeq(q, 1, run)) \o SubSeq(q, run + 1, Len(q))
                   ELSE q
       IN BinaryInsertionSort(made, run + 1)

\* sortByPriority
sortByPriority(rs) == ArraySort(rs)

----------------------------------------------------------------------------
(* RuleAnalyzer: recommendBundle *)

\* parts.join(sep)
RECURSIVE Join(_, _)
Join(parts, sep) ==
  IF parts = <<>> THEN ""
  ELSE IF Len(parts) = 1 THEN parts[1]
  ELSE parts[1] \o sep \o Join(Tail(parts), sep)

\* <<v.s>> if the optional string v is set (truthy), <<>> otherwise
IfSet(v) == IF Truthy(v) THEN <<v.s>> ELSE <<>>

\* the type is pushed before the language
generateBundleNameTypeFirst(context) ==
  LET parts == IfSet(context.type) \o IfSet(context.language) \o IfSet(context.framework)
  IN IF Len(parts) > 0 THEN Join(parts, "-") \o "-bundle" ELSE "custom-bundle"

generateBundleName(context) ==
  LET parts == IfSet(context.language) \o IfSet(context.type) \o IfSet(context.framework)
  IN IF Len(parts) > 0 THEN Join(parts, "-") \o "-bundle" ELSE "custom-bundle"

generateBundleDescription(context) ==
  LET parts ==
        <<"Rules for">> \o IfSet(context.language) \o IfSet(context.type)
          \o (IF Truthy(context.framework)
              THEN <<"using " \o context.framework.s>> ELSE <<>>)
          \o (IF Truthy(context.priorities) /\ Len(context.priorities.a) > 0
              THEN <<"with focus on " \o Join(context.priorities.a, ", ")>>
              ELSE <<>>)
  IN Join(parts, " ")

\* only priorities[0] is searched for
PriorityRulesFirstOnly(rs, ps) ==
  IF ps = <<>> THEN <<>> ELSE searchByTags(rs, <<Head(ps)>>).list

\* the priorities loop: one searchByTags([priority]) per entry, in order
RECURSIVE PriorityRules(_, _)
PriorityRules(rs, ps) ==
  IF ps = <<>> THEN <<>>
  ELSE searchByTags(rs, <<Head(ps)>>).list \o PriorityRules(rs, Tail(ps))

\* the priority labels, each put before the earlier ones
RECURSIVE PriorityLabelsUnshifted(_)
PriorityLabelsUnshifted(ps) ==
  IF ps = <<>> THEN <<>>
  ELSE PriorityLabelsUnshifted(Tail(ps)) \o <<Head(ps) \o "-focused">>

RECURSIVE PriorityLabels(_)
PriorityLabels(ps) ==
  IF ps = <<>> THEN <<>> ELSE <<Head(ps) \o "-focused">> \o PriorityLabels(Tail(ps))

\* rule.metadata.applicability?.frameworks
FrameworksOf(rule) ==
  IF rule.metadata.applicability.t = "object"
  THEN rule.metadata.applicability.frameworks
  ELSE Undefined

\* a framework entry matches if the framework asked for is a part of it
frameworkMatchSubstring(rule, framework) ==
  /\ FrameworksOf(rule).t = "array"
  /\ \E k \in 1..Len(FrameworksOf(rule).a) :
       StrIncludes(FrameworksOf(rule).a[k], framework)

\* rule.metadata.applicability?.frameworks?.includes(framework)
frameworkMatch(rule, framework) ==
  /\ FrameworksOf(rule).t # "undefined"
  /\ JsIncludes(FrameworksOf(rule), framework)

\* a facet's label is pushed only if the facet matched a rule
recommendBundleLabelIfMatched(rs, context) ==
  LET priorities == IF Truthy(context.priorities) THEN context.priorities.a ELSE <<>>
      fwMatch(rule) == frameworkMatch(rule, context.framework.s)
      Label(matched, label) == IF matched = <<>> THEN <<>> ELSE <<label>>
      working ==
        searchByCategory(rs, "general")
          \o (IF Truthy(context.type)
              THEN searchByCategory(rs, context.type.s) ELSE <<>>)
          \o (IF Truthy(context.language)
              THEN searchByLanguage(rs, context.language.s) ELSE <<>>)
          \o PriorityRules(rs, priorities)
          \o (IF Truthy(context.framework) THEN Filter(rs, fwMatch) ELSE <<>>)
  IN [threw |-> FALSE,
      name |-> generateBundleName(context),
      description |-> generateBundleDescription(context),
      rules |-> sortByPriority(deduplicateRules(working)),
      scenarios |-> Label(working, "general-ai-operations"),
      working |-> working]

\* recommendBundle: working is recommendedRules as it stands before
\* deduplication
recommendBundle(rs, context) ==
  LET priorities == IF Truthy(context.priorities) THEN context.priorities.a ELSE <<>>
      fwMatch(rule) == frameworkMatch(rule, context.framework.s)
      throws ==
        \/ \E i \in 1..Len(priorities) : searchByTags(rs, <<priorities[i]>>).threw
        \/ /\ Truthy(context.framework)
           /\ \E i \in 1..Len(rs) :
                 /\ FrameworksOf(rs[i]).t # "undefined"
                 /\ ~HasIncludes(FrameworksOf(rs[i]))
      working ==
        searchByCategory(rs, "general")
          \o (IF Truthy(context.type)
              THEN searchByCategory(rs, context.type.s) ELSE <<>>)
          \o (IF Truthy(context.language)
              THEN searchByLanguage(rs, context.language.s) ELSE <<>>)
          \o PriorityRules(rs, priorities)
          \o (IF Truthy(context.framework) THEN Filter(rs, fwMatch) ELSE <<>>)
      scenarios ==
        <<"general-ai-operations">>
          \o (IF Truthy(context.type) THEN <<context.type.s \o "-tasks">> ELSE <<>>)
          \o (IF Truthy(context.language)
              THEN <<context.language.s \o "-development">> ELSE <<>>)
          \o PriorityLabels(priorities)
          \o (IF Truthy(context.framework)
              THEN <<context.framework.s \o "-framework">> ELSE <<>>)
  IN IF throws
     THEN [threw |-> TRUE, name |-> "", description |-> "", rules |-> <<>>,
           scenarios |-> <<>>, working |-> <<>>]
     ELSE [threw |-> FALSE,
           name |-> generateBundleName(context),
           description |-> generateBundleDescription(context),
           rules |-> sortByPriority(deduplicateRules(working)),
           scenarios |-> scenarios,
           working |-> working]

----------------------------------------------------------------------------
(* RuleAnalyzer: common bundles, relations, lookup by id *)

\* a ScenarioContext with no field set
NoContext ==
  [type |-> Undefined, language |-> Undefined, priorities |-> Undefined,
   framework |-> Undefined]

Context(fields) == [k \in DOMAIN NoContext |->
                      IF k \in DOMAIN fields THEN fields[k] ELSE NoContext[k]]

\* the six scenarios of getCommonBundles, in the order of the object literal
CommonContexts ==
  << [key |-> "python-web-development",
      context |-> Context([type |-> Str("coding"), language |-> Str("python"),
                           priorities |-> Arr(<<"security", "performance">>)])],
     [key |-> "javascript-frontend",
      context |-> Context([type |-> Str("coding"), language |-> Str("javascript"),
                           priorities |-> Arr(<<"accessibility", "performance">>)])],
     [key |-> "api-development",
      context |-> Context([type |-> Str("coding"),
                           priorities |-> Arr(<<"security", "performance">>)])],
     [key |-> "documentation-writing",
      context |-> Context([type |-> Str("writing"),
                           priorities |-> Arr(<<"accessibility">>)])],
     [key |-> "data-analysis",
      context |-> Context([type |-> Str("data"), language |-> Str("python")])],
     [key |-> "devops-cicd",
      context |-> Context([type |-> Str("devops"),
                           priorities |-> Arr(<<"security">>)])] >>

\* the six bundles are built once, in the constructor, when the index is empty
getCommonBundlesPrebuilt(rs) ==
  [threw |-> FALSE,
   bundles |-> [i \in 1..Len(CommonContexts) |->
                  [key |-> CommonContexts[i].key,
                   bundle |-> recommendBundle(<<>>, CommonContexts[i].context)]]]

\* getCommonBundles: the object is built only if no recommendBundle call throws
getCommonBundles(rs) ==
  LET made == [i \in 1..Len(CommonContexts) |->
                 [key |-> CommonContexts[i].key,
                  bundle |-> recommendBundle(rs, CommonContexts[i].context)]]
  IN IF \E i \in 1..Len(made) : made[i].bundle.threw
     THEN [threw |-> TRUE, bundles |-> <<>>]
     ELSE [threw |-> FALSE, bundles |-> made]

\* this.rules.find(r => r.metadata.id === ruleId): <<>> for undefined
find(rs, ruleId) ==
  LET Keep(r) == r.metadata.id = ruleId
      hits == Filter(rs, Keep)
  IN IF hits = <<>> THEN <<>> ELSE <<Head(hits)>>

\* the rules whose id the list value includes
RulesListedIn(rs, listed) ==
  IF ~HasIncludes(listed) THEN Threw
  ELSE LET Keep(r) == JsIncludes(listed, r.metadata.id)
       IN Returned(Filter(rs, Keep))

getRelatedRulesStrict(rs, ruleId) ==
  LET rule == find(rs, ruleId)
  IN IF rule = <<>> \/ ~Truthy(rule[1].metadata.related) THEN Returned(<<>>)
     ELSE IF \E k \in 1..Len(rule[1].metadata.related.a) :
               find(rs, rule[1].metadata.related.a[k]) = <<>>
          THEN Threw
          ELSE RulesListedIn(rs, rule[1].metadata.related)

getRelatedRules(rs, ruleId) ==
  LET rule == find(rs, ruleId)
  IN IF rule = <<>> \/ ~Truthy(rule[1].metadata.related) THEN Returned(<<>>)
     ELSE RulesListedIn(rs, rule[1].metadata.related)

getPrerequisites(rs, ruleId) ==
  LET rule == find(rs, ruleId)
  IN IF rule = <<>> \/ ~Truthy(rule[1].metadata.prerequisites) THEN Returned(<<>>)
     ELSE RulesListedIn(rs, rule[1].metadata.prerequisites)

\* get_rule (MCP tool) and `get <ruleId>` (CLI): the rule, or "Rule not found"
getRule(rs, ruleId) ==
  LET rule == find(rs, ruleId)
  IN IF rule = <<>> THEN Threw ELSE Returned(rule)

\* list_rules (MCP tool) and `list` (CLI): each argument that is set replaces
\* the listing built so far
listRules(rs, args) ==
  LET byCategory ==
        IF Truthy(args.category)
        THEN searchByCategory(rs, args.category.s) ELSE rs
      byLanguage ==
        IF Truthy(args.language)
        THEN searchByLanguage(rs, args.language.s) ELSE byCategory
  IN IF Truthy(args.tags)
     THEN searchByTags(rs, args.tags.a)
     ELSE Returned(byLanguage)

----------------------------------------------------------------------------
(* The corpora and the calls the model explores *)

\* The most files a corpus drawn from Documents holds
MaxDocs == 2

Header(fields) == [k \in DOMAIN NoHeader |->
                     IF k \in DOMAIN fields THEN fields[k] ELSE NoHeader[k]]

\* A path that readFileSync fails on (a directory of that name, no permission)
Unreadable(path) == [File(path, NoHeader, "") EXCEPT !.io = "error"]

\* A file whose front matter is not valid YAML: gray-matter throws on it
Malformed(path, body) == [File(path, NoHeader, body) EXCEPT !.yaml = "malformed"]

\* Files a corpus directory may hold
Documents ==
  << File(<<"general", "rules.md">>, NoHeader, "Be helpful and honest."),
     File(<<"coding", "python-rules.md">>,
          Header([priority |-> Str("high"), category |-> Str("security"),
                  tags |-> Arr(<<"security", "testing">>),
                  related |-> Arr(<<"rules", "missing-id">>),
                  applicability |-> Obj(Arr(<<"react", "vue">>))]),
          "Validate input."),
     File(<<"coding", "javascript-rules.md">>, NoHeader,
          "Performance Testing with TDD."),
     File(<<"security", "security-rules.md">>,
          Header([tags |-> Str("security-review"), priority |-> Str("critical"),
                  prerequisites |-> Arr(<<"python-rules">>),
                  applicability |-> Obj(Arr(<<"react-native">>))]),
          ""),
     File(<<"misc", "style-rules.md">>,
          Header([tags |-> Arr(<<>>), priority |-> Str("low"),
                  category |-> Str("style"), language |-> Str("rust")]),
          "Use Python or JavaScript."),
     File(<<"devops", "deploy-rules.md">>,
          Header([tags |-> Num(5),
                  applicability |-> Obj(Arr(<<"react">>))]),
          "Ship C# (CSharp) services."),
     File(<<"rules.md">>,
          Header([id |-> Str("python-rules"), priority |-> Str("urgent")]),
          "Accessibility first."),
     File(<<"docs", "usage-guide.md">>, NoHeader, "How to use the rules.") >>

Injective(q) == \A i, j \in 1..Len(q) : i # j => q[i] # q[j]

\* Every directory listing of at most MaxDocs distinct Documents
DocumentCorpora ==
  UNION { { [i \in 1..n |-> Documents[ix[i]]] :
              ix \in {q \in [1..n -> 1..Len(Documents)] : Injective(q)} } :
          n \in 0..MaxDocs }

\* Files of a corpus in which loading meets trouble: two documents of one
\* file name, a path that cannot be read, a header that cannot be parsed
FaultMix ==
  << File(<<"general", "rules.md">>, NoHeader, "Be helpful and honest."),
     File(<<"examples", "rules.md">>, NoHeader, "Worked examples."),
     Unreadable(<<"data", "rules.md">>),
     Malformed(<<"research", "research-rules.md">>, "Cite sources.") >>

\* The most files a corpus drawn from FaultMix holds
FaultDocs == 3

\* Every directory listing of at most FaultDocs distinct files of FaultMix
FaultCorpora ==
  UNION { { [i \in 1..n |-> FaultMix[ix[i]]] :
              ix \in {q \in [1..n -> 1..Len(FaultMix)] : Injective(q)} } :
          n \in 1..FaultDocs }

\* A corpus of general rules that differ in their declared priority only
PriorityMix ==
  <<"medium", "medium", "medium", "medium", "low", "urgent", "critical">>

PriorityFileNames ==
  <<"a-rules.md", "b-rules.md", "c-rules.md", "d-rules.md", "e-rules.md",
    "f-rules.md", "g-rules.md">>

Count(q, x) == Cardinality({i \in 1..Len(q) : q[i] = x})

\* The PriorityMix corpus with its priorities in every order
PriorityCorpora ==
  { [i \in 1..Len(PriorityMix) |->
       File(<<"general", PriorityFileNames[i]>>,
            Header([priority |-> Str(ps[i])]), "Keep it simple.")] :
    ps \in {q \in [1..Len(PriorityMix) -> SeqToSet(PriorityMix)] :
              \A x \in SeqToSet(PriorityMix) : Count(q, x) = Count(PriorityMix, x)} }

Corpora == DocumentCorpora \cup PriorityCorpora \cup FaultCorpora

TagQueries ==
  { <<>>, <<"security">>, <<"nonexistent-tag">>, <<"security", "performance">>,
    <<"testing", "nonexistent-tag">> }

LanguageQueries == {"python", "javascript", "rust"}

\* rule ids asked for
IdQueries == {"rules", "python-rules", "security-rules", "unknown-id"}

CategoryQueries == {"general", "coding", "devops"}

Contexts ==
  [type : {Str("general"), Str("coding"), Str("devops")},
   language : {Undefined, Str("python")},
   priorities : {Undefined, Arr(<<"security">>),
                 Arr(<<"security", "performance">>),
                 Arr(<<"performance", "security">>)},
   framework : {Undefined, Str("react")}]

\* list_rules / `list` called with no argument
NoListArgs == [category |-> Undefined, language |-> Undefined, tags |-> Undefined]

\* result: the call the caller made last and what it got, or NoCall
NoCall ==
  [op |-> "none", context |-> NoContext, tags |-> <<>>, language |-> "",
   category |-> "", threw |-> FALSE, list |-> <<>>, working |-> <<>>,
   scenarios |-> <<>>, name |-> "", description |-> "", id |-> "",
   reloaded |-> FALSE, bundles |-> <<>>, args |-> NoListArgs, served |-> ""]

----------------------------------------------------------------------------
(* The state machine *)

Init ==
  /\ disk \in Corpora
  /\ rules = <<>>
  /\ initialized = FALSE
  /\ result = NoCall
  /\ server = "none"

\* the loaded rules are pushed onto this.rules instead of replacing it
InitializeAppending ==
  /\ result.op = "none"
  /\ rules' = rules \o loadAllRules(disk)
  /\ initialized' = TRUE
  /\ result' = [NoCall EXCEPT !.op = "initialize", !.reloaded = initialized]
  /\ UNCHANGED <<disk, server>>

\* RuleAnalyzer.initialize
Initialize ==
  /\ result.op = "none"
  /\ rules' = loadAllRules(disk)
  /\ initialized' = TRUE
  /\ result' = [NoCall EXCEPT !.op = "initialize", !.reloaded = initialized]
  /\ UNCHANGED <<disk, server>>

SearchByTags ==
  /\ result.op = "none"
  /\ \E tags \in TagQueries :
       LET out == searchByTags(rules, tags)
       IN result' = [NoCall EXCEPT !.op = "searchByTags", !.tags = tags,
                                   !.threw = out.threw, !.list = out.list]
  /\ UNCHANGED <<disk, rules, initialized, server>>

SearchByLanguage ==
  /\ result.op = "none"
  /\ \E language \in LanguageQueries :
       result' = [NoCall EXCEPT !.op = "searchByLanguage", !.language = language,
                                !.list = searchByLanguage(rules, language)]
  /\ UNCHANGED <<disk, rules, initialized, server>>

SearchByCategory ==
  /\ result.op = "none"
  /\ \E category \in CategoryQueries :
       result' = [NoCall EXCEPT !.op = "searchByCategory", !.category = category,
                                !.list = searchByCategory(rules, category)]
  /\ UNCHANGED <<disk, rules, initialized, server>>

\* the priority sort is run in place on this.rules
RecommendBundleSortingIndex ==
  /\ result.op = "none"
  /\ \E context \in Contexts :
       LET bundle == recommendBundle(rules, context)
       IN result' = [NoCall EXCEPT !.op = "recommendBundle", !.context = context,
                                   !.threw = bundle.threw, !.list = bundle.rules,
                                   !.working = bundle.working,
                                   !.scenarios = bundle.scenarios,
                                   !.name = bundle.name,
                                   !.description = bundle.description]
  /\ rules' = sortByPriority(rules)
  /\ UNCHANGED <<disk, initialized, server>>

RecommendBundle ==
  /\ result.op = "none"
  /\ \E context \in Contexts :
       LET bundle == recommendBundle(rules, context)
       IN result' = [NoCall EXCEPT !.op = "recommendBundle", !.context = context,
                                   !.threw = bundle.threw, !.list = bundle.rules,
                                   !.working = bundle.working,
                                   !.scenarios = bundle.scenarios,
                                   !.name = bundle.name,
                                   !.description = bundle.description]
  /\ UNCHANGED <<disk, rules, initialized, server>>

GetCommonBundles ==
  /\ result.op = "none"
  /\ LET out == getCommonBundles(rules)
     IN result' = [NoCall EXCEPT !.op = "getCommonBundles",
                                 !.threw = out.threw, !.bundles = out.bundles]
  /\ UNCHANGED <<disk, rules, initialized, server>>

GetRelatedRules ==
  /\ result.op = "none"
  /\ \E ruleId \in IdQueries :
       LET out == getRelatedRules(rules, ruleId)
       IN result' = [NoCall EXCEPT !.op = "getRelatedRules", !.id = ruleId,
                                   !.threw = out.threw, !.list = out.list]
  /\ UNCHANGED <<disk, rules, initialized, server>>

GetPrerequisites ==
  /\ result.op = "none"
  /\ \E ruleId \in IdQueries :
       LET out == getPrerequisites(rules, ruleId)
       IN result' = [NoCall EXCEPT !.op = "getPrerequisites", !.id = ruleId,
                                   !.threw = out.threw, !.list = out.list]
  /\ UNCHANGED <<disk, rules, initialized, server>>

\* the get_rule tool of the MCP server, the `get` command of the CLI
GetRule ==
  /\ result.op = "none"
  /\ \E ruleId \in IdQueries :
       LET out == getRule(rules, ruleId)
       IN result' = [NoCall EXCEPT !.op = "getRule", !.id = ruleId,
                                   !.threw = out.threw, !.list = out.list]
  /\ UNCHANGED <<disk, rules, initialized, server>>

\* The caller takes the value (or the error) of its call
Return ==
  /\ result.op # "none"
  /\ result' = NoCall
  /\ UNCHANGED <<disk, rules, initialized, server>>

Next ==
  \/ Initialize
  \/ SearchByTags
  \/ SearchByLanguage
  \/ SearchByCategory
  \/ RecommendBundle
  \/ GetCommonBundles
  \/ GetRelatedRules
  \/ GetPrerequisites
  \/ GetRule
  \/ Return

Spec == Init /\ [][Next]_vars

----------------------------------------------------------------------------
(* The MCP server: initialize is started and not awaited, requests are      *)
(* handled whatever has become of it                                        *)

\* the corpora the server is started on
ServerCorpora ==
  {c \in DocumentCorpora :
     Len(c) <= 2 /\ (c # <<>> => c[1] = Documents[1])}

ListArgs ==
  [category : {Undefined, Str("coding")},
   language : {Undefined, Str("python")},
   tags : {Undefined, Arr(<<"security">>)}]

\* the arguments of recommend_bundle are not validated: type may be missing
ToolContexts ==
  [type : {Undefined, Str("coding")},
   language : {Undefined, Str("python")},
   priorities : {Undefined, Arr(<<"security">>)},
   framework : {Undefined, Str("react")}]

\* analyzer.initialize() has been called at module load, its promise is pending
InitServer ==
  /\ disk \in ServerCorpora
  /\ rules = <<>>
  /\ initialized = FALSE
  /\ result = NoCall
  /\ server = "loading"

\* the index is filled file by file while requests are handled
ServerLoadedFileByFile ==
  /\ server = "loading"
  /\ LET all == loadAllRules(disk)
         done == Len(rules) >= Len(all) - 1
     IN /\ rules' = SubSeq(all, 1, IF done THEN Len(all) ELSE Len(rules) + 1)
        /\ initialized' = done
        /\ server' = IF done THEN "ready" ELSE "loading"
  /\ UNCHANGED <<disk, result>>

\* the promise of initialize resolves: this.rules is assigned the loaded list
ServerLoaded ==
  /\ server = "loading"
  /\ rules' = loadAllRules(disk)
  /\ initialized' = TRUE
  /\ server' = "ready"
  /\ UNCHANGED <<disk, result>>

\* the promise of initialize rejects: the error is logged, the server stays up
ServerLoadFailed ==
  /\ server = "loading"
  /\ server' = "failed"
  /\ UNCHANGED <<disk, rules, initialized, result>>

\* CallTool list_rules; a thrown error is answered with isError
ToolListRules ==
  /\ result.op = "none"
  /\ \E args \in ListArgs :
       LET out == listRules(rules, args)
       IN result' = [NoCall EXCEPT !.op = "list_rules", !.args = args,
                                   !.threw = out.threw, !.list = out.list,
                                   !.served = server]
  /\ UNCHANGED <<disk, rules, initialized, server>>

\* CallTool get_rule
ToolGetRule ==
  /\ result.op = "none"
  /\ \E ruleId \in IdQueries :
       LET out == getRule(rules, ruleId)
       IN result' = [NoCall EXCEPT !.op = "get_rule", !.id = ruleId,
                                   !.threw = out.threw, !.list = out.list,
                                   !.served = server]
  /\ UNCHANGED <<disk, rules, initialized, server>>

\* CallTool recommend_bundle
ToolRecommendBundle ==
  /\ result.op = "none"
  /\ \E context \in ToolContexts :
       LET bundle == recommendBundle(rules, context)
       IN result' = [NoCall EXCEPT !.op = "recommend_bundle", !.context = context,
                                   !.threw = bundle.threw, !.list = bundle.rules,
                                   !.working = bundle.working,
                                   !.scenarios = bundle.scenarios,
                                   !.name = bundle.name,
                                   !.description = bundle.description,
                                   !.served = server]
  /\ UNCHANGED <<disk, rules, initialized, server>>

\* ListResources: one resource per rule of getAllRules()
ListResources ==
  /\ result.op = "none"
  /\ result' = [NoCall EXCEPT !.op = "list_resources", !.list = rules,
                              !.served = server]
  /\ UNCHANGED <<disk, rules, initialized, server>>

NextServer ==
  \/ ServerLoaded
  \/ ServerLoadFailed
  \/ ToolListRules
  \/ ToolGetRule
  \/ ToolRecommendBundle
  \/ ListResources
  \/ Return

SpecServer == InitServer /\ [][NextServer]_vars

----------------------------------------------------------------------------
(* An analyzer that is initialized again after its corpus has changed *)

\* a document written into the corpus while the analyzer lives
AddedFile ==
  File(<<"coding", "api-rules.md">>,
       Header([tags |-> Arr(<<"security">>), priority |-> Str("high")]),
       "Version the API.")

\* the corpora the long-lived analyzer starts from
EditCorpora == {c \in DocumentCorpora : Len(c) = 1}

InitEdit ==
  /\ disk \in EditCorpora
  /\ rules = <<>>
  /\ initialized = FALSE
  /\ result = NoCall
  /\ server = "none"

\* between two calls, someone adds AddedFile to the corpus or deletes its
\* first file
EditCorpus ==
  /\ result.op = "none"
  /\ initialized
  /\ \/ /\ \A i \in 1..Len(disk) : disk[i] # AddedFile
        /\ disk' = Append(disk, AddedFile)
     \/ /\ disk # <<>>
        /\ disk' = Tail(disk)
  /\ UNCHANGED <<rules, initialized, result, server>>

NextEdit ==
  \/ Initialize
  \/ EditCorpus
  \/ GetCommonBundles
  \/ GetRule
  \/ Return

SpecEdit == InitEdit /\ [][NextEdit]_vars

----------------------------------------------------------------------------
(* Properties *)

\* a bundle was returned by the last call
BundleReturned == result.op = "recommendBundle" /\ ~result.threw

IdOf(rule) == rule.metadata.id

\* the position of the first rule of the given id in a list
FirstIndex(list, id) ==
  CHOOSE i \in 1..Len(list) :
    /\ IdOf(list[i]) = id
    /\ \A j \in 1..(i - 1) : IdOf(list[j]) # id

\* the rank the data model gives a priority: a missing one counts as medium
Ranked(rule) ==
  rule.metadata.priority.t = "undefined"
    \/ rule.metadata.priority.s \in {"critical", "high", "medium", "low"}

RankOf(rule) ==
  IF rule.metadata.priority.t = "undefined" THEN 2
  ELSE CASE rule.metadata.priority.s = "critical" -> 0
         [] rule.metadata.priority.s = "high" -> 1
         [] rule.metadata.priority.s = "medium" -> 2
         [] rule.metadata.priority.s = "low" -> 3

\* C1: the rules of a returned bundle hold no two rules of the same id.
C1_BundleIdsUnique ==
  BundleReturned =>
    \A i, j \in 1..Len(result.list) :
      i # j => IdOf(result.list[i]) # IdOf(result.list[j])

\* C1 happens: two different documents of one id were both appended to the
\* working list, and the bundle was returned.
C1_Witness ==
  /\ BundleReturned
  /\ \E i, j \in 1..Len(result.working) :
       /\ IdOf(result.working[i]) = IdOf(result.working[j])
       /\ result.working[i].filePath # result.working[j].filePath
  /\ Len(result.list) >= 1

\* C2: in a returned bundle no rule comes before a rule of lower rank
\* (critical=0, high=1, medium=2, low=3, missing = medium), whatever
\* priority values the headers declare; stated for the rules that have a
\* rank, which is what the adjacent-pair order gives when all of them have.
C2_BundleSortedByRank ==
  BundleReturned =>
    \A i, j \in 1..Len(result.list) :
      (i < j /\ Ranked(result.list[i]) /\ Ranked(result.list[j]))
        => RankOf(result.list[i]) <= RankOf(result.list[j])

\* C3: two rules of equal rank stand in a returned bundle in the order of
\* their first appearance in the working list.
C3_TiesKeepWorkingOrder ==
  BundleReturned =>
    \A i, j \in 1..Len(result.list) :
      (/\ i < j
       /\ Ranked(result.list[i]) /\ Ranked(result.list[j])
       /\ RankOf(result.list[i]) = RankOf(result.list[j]))
        => FirstIndex(result.working, IdOf(result.list[i]))
             < FirstIndex(result.working, IdOf(result.list[j]))

\* C4: the scenarios of a returned bundle are, in this order, the general
\* label, "{type}-tasks", "{language}-development" if a language is set, one
\* "{facet}-focused" per entry of priorities in the order given, and
\* "{framework}-framework" if a framework is set; for {coding, python,
\* [security, performance]} they are the five labels of the example.
C4_ScenariosInOrder ==
  BundleReturned =>
    LET c == result.context
        sc == result.scenarios
        hasLang == c.language.t = "string" /\ c.language.s # ""
        hasFw == c.framework.t = "string" /\ c.framework.s # ""
        ps == IF c.priorities.t = "array" THEN c.priorities.a ELSE <<>>
        base == IF hasLang THEN 3 ELSE 2
    IN /\ Len(sc) = base + Len(ps) + (IF hasFw THEN 1 ELSE 0)
       /\ sc[1] = "general-ai-operations"
       /\ sc[2] = c.type.s \o "-tasks"
       /\ hasLang => sc[3] = c.language.s \o "-development"
       /\ \A k \in 1..Len(ps) : sc[base + k] = ps[k] \o "-focused"
       /\ hasFw => sc[Len(sc)] = c.framework.s \o "-framework"
       /\ (c = [type |-> Str("coding"), language |-> Str("python"),
                priorities |-> Arr(<<"security", "performance">>),
                framework |-> Undefined])
            => sc = <<"general-ai-operations", "coding-tasks",
                      "python-development", "security-focused",
                      "performance-focused">>

\* C4 happens: a bundle was returned for a context that sets a language, two
\* priorities and a framework, on a loaded index.
C4_Witness ==
  /\ BundleReturned
  /\ Len(rules) > 0
  /\ result.context.language = Str("python")
  /\ result.context.priorities = Arr(<<"security", "performance">>)
  /\ result.context.framework = Str("react")
  /\ Len(result.scenarios) = 6

\* the rules of the index that a list holds, as index positions
Positions(list) == {i \in 1..Len(rules) : \E k \in 1..Len(list) : list[k] = rules[i]}

\* list holds rules of the index, each once, in index order
InIndexOrder(list) ==
  /\ \A k \in 1..Len(list) : \E i \in 1..Len(rules) : rules[i] = list[k]
  /\ \A k, m \in 1..Len(list) :
       k < m => \E i, j \in 1..Len(rules) :
                  i < j /\ rules[i] = list[k] /\ rules[j] = list[m]

\* C5: searchByLanguage(L) returns, in index order, exactly the rules whose
\* language is L or holds L, and every rule whose language is "universal".
C5_SearchByLanguage ==
  result.op = "searchByLanguage" =>
    /\ InIndexOrder(result.list)
    /\ \A i \in 1..Len(rules) :
         i \in Positions(result.list) <=>
           LET lang == rules[i].metadata.language
           IN \/ lang = Str(result.language)
              \/ lang.t = "array" /\ \E k \in 1..Len(lang.a) : lang.a[k] = result.language
              \/ lang = Str("universal")

\* C5 happens: a query for a language no rule names returned a universal
\* rule, and left out a rule of another language.
C5_Witness ==
  /\ result.op = "searchByLanguage"
  /\ result.language = "rust"
  /\ \E k \in 1..Len(result.list) : result.list[k].metadata.language = Str("universal")
  /\ Len(result.list) < Len(rules)

\* the labels a rule carries: the entries of its tags list; a scalar tags
\* value is the one label it spells
TagSet(rule) ==
  CASE rule.metadata.tags.t = "array" -> SeqToSet(rule.metadata.tags.a)
    [] rule.metadata.tags.t = "string" -> {rule.metadata.tags.s}
    [] OTHER -> {}

\* C6: searchByTags(T) returns exactly the rules that carry at least one tag
\* of T.
C6_SearchByTagsIsOr ==
  result.op = "searchByTags" =>
    /\ ~result.threw
    /\ \A i \in 1..Len(rules) :
         i \in Positions(result.list) <=>
           TagSet(rules[i]) \cap SeqToSet(result.tags) # {}

\* C7: searchByTags with tags that no rule carries (that no tags value of the
\* index holds, or spells in part) returns the empty list and does not throw,
\* whatever shape the headers give their tags.
C7_UnknownTagIsEmpty ==
  (/\ result.op = "searchByTags"
   /\ \A i \in 1..Len(rules) : \A k \in 1..Len(result.tags) :
        ~JsIncludes(rules[i].metadata.tags, result.tags[k]))
    => (~result.threw /\ result.list = <<>>)

\* C8: every rule of the index has at least one tag; in particular a header
\* that declares an empty tags list yields a rule with a tag.
C8_TagsNeverEmpty ==
  \A i \in 1..Len(rules) :
    rules[i].metadata.tags.t = "array" => Len(rules[i].metadata.tags.a) > 0

\* C9: the category of every rule of the index is one of the nine of the
\* closed set, whatever the path and the header of its document hold.
C9_CategoryClosed ==
  \A i \in 1..Len(rules) :
    rules[i].metadata.category \in
      {"general", "coding", "writing", "research", "communication", "data",
       "project-management", "security", "devops"}

\* the document a rule was loaded from
DocumentOf(rule) == CHOOSE f \in SeqToSet(disk) : f.path = rule.filePath

\* C9 happens: the index holds a rule whose directory is no category and
\* whose header declares a category outside the closed set.
C9_Witness ==
  \E i \in 1..Len(rules) :
    /\ rules[i].filePath[1] = "misc"
    /\ DocumentOf(rules[i]).fm.category = Str("style")

\* no keyword of the table occurs in the lowercased file name or body
NoKeyword(f) ==
  \A k \in {"performance", "security", "testing", "accessibility", "best-practices"} :
    /\ ~StrIncludes(ToLowerCase(Basename(f.path)), k)
    /\ ~StrIncludes(ToLowerCase(f.body), k)

\* C10: a document without a tags header field and without any keyword in its
\* file name or body gets exactly the tags {"best-practices"}.
C10_TagFallback ==
  \A i \in 1..Len(rules) :
    (DocumentOf(rules[i]).fm.tags = Undefined /\ NoKeyword(DocumentOf(rules[i])))
      => rules[i].metadata.tags = Arr(<<"best-practices">>)

\* C10 happens: such a document is in the index.
C10_Witness ==
  \E i \in 1..Len(rules) :
    /\ DocumentOf(rules[i]).fm.tags = Undefined
    /\ NoKeyword(DocumentOf(rules[i]))

----------------------------------------------------------------------------
(* Properties of the index that initialize builds *)

\* C11: no two rules of the index share an id, whatever files were discovered
C11_IndexIdsUnique ==
  \A i, j \in 1..Len(rules) : i # j => IdOf(rules[i]) # IdOf(rules[j])

\* C12: every rule of the index is stored with one of the four priorities,
\* a document that declares none being stored as medium
C12_PriorityStored ==
  \A i \in 1..Len(rules) :
    /\ rules[i].metadata.priority.t = "string"
    /\ rules[i].metadata.priority.s \in {"critical", "high", "medium", "low"}

\* initialize has just loaded the index
Loaded == result.op = "initialize"

\* the place of the rule's file in a list of files
FileIndex(files, rule) ==
  CHOOSE k \in 1..Len(files) : files[k].path = rule.filePath

\* C13: a readable document whose front matter cannot be parsed is in the index
\* all the same, with the metadata of a document that has no header
C13_MalformedHeaderLoads ==
  Loaded =>
    LET found == FindRuleFiles(disk)
    IN \A k \in 1..Len(found) :
         (found[k].io = "ok" /\ found[k].yaml # "ok") =>
           \E i \in 1..Len(rules) :
             /\ rules[i].filePath = found[k].path
             /\ rules[i].metadata =
                  generateMetadata(found[k].path, NoHeader, found[k].body)

\* C14: a file that cannot be read is skipped and the load goes on without an
\* error: the index holds no rule of an unreadable file, holds the rule of
\* every other discovered file that yields one, and follows discovery order
C14_ReadFailureSkipped ==
  Loaded =>
    LET found == FindRuleFiles(disk)
    IN /\ ~result.threw
       /\ \A i \in 1..Len(rules) :
            \E k \in 1..Len(found) :
              rules[i].filePath = found[k].path /\ found[k].io = "ok"
       /\ \A k \in 1..Len(found) :
            (found[k].io = "ok" /\ found[k].yaml = "ok") =>
              \E i \in 1..Len(rules) :
                /\ rules[i].filePath = found[k].path
                /\ rules[i].metadata =
                     generateMetadata(found[k].path, found[k].fm, found[k].body)
       /\ \A i, j \in 1..Len(rules) :
            i < j => FileIndex(found, rules[i]) < FileIndex(found, rules[j])

\* an unreadable file was discovered between two files that were loaded
C14_Witness ==
  /\ Loaded
  /\ Len(rules) = 2
  /\ LET found == FindRuleFiles(disk)
     IN \E k \in 1..Len(found) :
          /\ found[k].io # "ok"
          /\ FileIndex(found, rules[1]) < k
          /\ k < FileIndex(found, rules[2])

----------------------------------------------------------------------------
(* The empty index *)

\* initialize found nothing to load
EmptyIndex == initialized /\ rules = <<>>

ListQueries ==
  {"searchByTags", "searchByLanguage", "searchByCategory", "getRelatedRules",
   "getPrerequisites"}

\* C15 as stated: on an empty or missing corpus initialize succeeds with an
\* empty index, every query returns the empty list, and recommendBundle
\* returns a bundle with no rule and no facet label at all in scenarios
C15_EmptyIndexNoLabels ==
  EmptyIndex =>
    /\ result.op \in ListQueries => (~result.threw /\ result.list = <<>>)
    /\ result.op = "recommendBundle" =>
         (~result.threw /\ result.list = <<>> /\ result.scenarios = <<>>)

\* C15, amended: on an empty or missing corpus initialize succeeds with an
\* empty index, every query returns the empty list, and recommendBundle
\* returns a bundle with no rule whose scenarios list all the same holds one
\* label per facet of the context, "general-ai-operations" first
C15_EmptyIndexKeepsLabels ==
  EmptyIndex =>
    /\ result.op \in ListQueries => (~result.threw /\ result.list = <<>>)
    /\ result.op = "recommendBundle" =>
         LET c == result.context
             facets == 1 + (IF Truthy(c.type) THEN 1 ELSE 0)
                         + (IF Truthy(c.language) THEN 1 ELSE 0)
                         + (IF Truthy(c.priorities) THEN Len(c.priorities.a) ELSE 0)
                         + (IF Truthy(c.framework) THEN 1 ELSE 0)
         IN /\ ~result.threw
            /\ result.list = <<>>
            /\ Len(result.scenarios) = facets
            /\ result.scenarios[1] = "general-ai-operations"
    /\ result.op = "getCommonBundles" =>
         /\ ~result.threw
         /\ \A i \in 1..Len(result.bundles) :
              /\ result.bundles[i].bundle.rules = <<>>
              /\ result.bundles[i].bundle.scenarios # <<>>

\* a corpus with nothing to discover was loaded and a bundle asked for a
\* context of five facets
C15_Witness ==
  /\ EmptyIndex
  /\ FindRuleFiles(disk) = <<>>
  /\ BundleReturned
  /\ Truthy(result.context.language)
  /\ Truthy(result.context.framework)
  /\ Len(result.scenarios) = 6

----------------------------------------------------------------------------
(* A context whose type matches no rule *)

\* the context sets its type and nothing else
OnlyType(c) ==
  /\ Truthy(c.type)
  /\ c.language = Undefined
  /\ c.priorities = Undefined
  /\ c.framework = Undefined

GeneralRules == {i \in 1..Len(rules) : rules[i].metadata.category = "general"}

\* C16: for a context that sets only type, on an index with no rule of that
\* category, recommendBundle raises no error and returns exactly the general
\* rules of the index: each of them once and no other rule
C16_OnlyGeneralRules ==
  (/\ result.op = "recommendBundle"
   /\ OnlyType(result.context)
   /\ \A i \in 1..Len(rules) : rules[i].metadata.category # result.context.type.s)
    => /\ ~result.threw
       /\ \A k \in 1..Len(result.list) :
            \E i \in GeneralRules : result.list[k] = rules[i]
       /\ \A i \in GeneralRules :
            Cardinality({k \in 1..Len(result.list) :
                           result.list[k].filePath = rules[i].filePath}) = 1

----------------------------------------------------------------------------
(* The index over the life of the analyzer *)

QueryOps ==
  {"searchByTags", "searchByLanguage", "searchByCategory", "recommendBundle",
   "getCommonBundles", "getRelatedRules", "getPrerequisites"}

\* C17: once initialize has completed, a call of searchByTags,
\* searchByLanguage, searchByCategory, recommendBundle, getCommonBundles,
\* getRelatedRules or getPrerequisites, and its return, leave the index as it
\* was: the same rules with the same metadata in the same order
C17_QueriesKeepIndex ==
  [][(initialized /\ (result.op \in QueryOps \/ result'.op \in QueryOps))
       => rules' = rules]_vars

\* a bundle was sorted into an order that is not the order of the loaded index
C17_Witness ==
  /\ initialized
  /\ BundleReturned
  /\ Len(result.list) >= 2
  /\ ~InIndexOrder(result.list)
  /\ \A k \in 1..Len(result.list) : \E i \in 1..Len(rules) : rules[i] = result.list[k]

----------------------------------------------------------------------------
(* Relations between rules and lookups by id *)

RelationOps == {"getRelatedRules", "getPrerequisites"}

\* the index knows the id
Known(id) == \E i \in 1..Len(rules) : IdOf(rules[i]) = id

\* the list the rule named in the last call declares for the relation asked
DeclaredList ==
  LET named == rules[FirstIndex(rules, result.id)]
  IN IF result.op = "getRelatedRules"
     THEN named.metadata.related
     ELSE named.metadata.prerequisites

\* C19: getRelatedRules(id) and getPrerequisites(id) raise no error and return
\* exactly the rules of the index whose id occurs in the related (respectively
\* prerequisites) list of the named rule, each once, in index order; an id of
\* the list that no rule of the index carries adds nothing
C19_RelationsResolved ==
  result.op \in RelationOps =>
    /\ ~result.threw
    /\ IF Known(result.id) /\ DeclaredList.t = "array"
       THEN /\ Positions(result.list) =
                 {i \in 1..Len(rules) : IdOf(rules[i]) \in SeqToSet(DeclaredList.a)}
            /\ InIndexOrder(result.list)
       ELSE result.list = <<>>

\* the named rule lists an id the index lacks beside one it holds, and the
\* rule of the latter came back
C19_Witness ==
  /\ result.op = "getRelatedRules"
  /\ Known(result.id)
  /\ DeclaredList.t = "array"
  /\ \E k \in 1..Len(DeclaredList.a) : ~Known(DeclaredList.a[k])
  /\ Len(result.list) = 1
  /\ ~result.threw

LookupOps == {"getRule", "getRelatedRules", "getPrerequisites"}

\* C20: a lookup by an id that the index does not hold is reported to the
\* caller as "not found" by get_rule, getRelatedRules and getPrerequisites
\* alike
C20_UnknownIdNotFound ==
  (initialized /\ result.op \in LookupOps /\ ~Known(result.id)) => result.threw

----------------------------------------------------------------------------
(* The catalogue of common bundles *)

CatalogueKeys ==
  <<"python-web-development", "javascript-frontend", "api-development",
    "documentation-writing", "data-analysis", "devops-cicd">>

\* C21: what getCommonBundles returns is, key by key for its six fixed keys,
\* the bundle recommendBundle gives for the key's context on the index as it
\* is when the call is made, also after the corpus changed and was loaded again
C21_CatalogueFromLiveIndex ==
  (result.op = "getCommonBundles" /\ ~result.threw) =>
    /\ [i \in 1..Len(result.bundles) |-> result.bundles[i].key] = CatalogueKeys
    /\ \A i \in 1..Len(result.bundles) :
         LET live == recommendBundle(rules, CommonContexts[i].context)
         IN /\ ~live.threw
            /\ result.bundles[i].bundle.rules = live.rules
            /\ result.bundles[i].bundle.scenarios = live.scenarios
            /\ result.bundles[i].bundle.name = live.name
            /\ result.bundles[i].bundle.description = live.description

\* the corpus gained AddedFile after a first load, was loaded again, and the
\* api-development bundle of the next call holds the new rule
C21_Witness ==
  /\ result.op = "getCommonBundles"
  /\ ~result.threw
  /\ \E i \in 1..Len(disk) : disk[i] = AddedFile
  /\ rules = loadAllRules(disk)
  /\ Len(rules) = 2
  /\ \E k \in 1..Len(result.bundles[3].bundle.rules) :
       IdOf(result.bundles[3].bundle.rules[k]) = "api-rules"

----------------------------------------------------------------------------
(* The tools of the MCP server *)

\* C22: every rule that list_rules (or the CLI list command) returns
\* satisfies every filter that was supplied: its category is the category
\* asked for, it is a match of the language asked for, and a match of the tags
C22_ListFiltersAllApply ==
  (result.op = "list_rules" /\ ~result.threw) =>
    \A k \in 1..Len(result.list) :
      /\ Truthy(result.args.category) =>
           result.list[k].metadata.category = result.args.category.s
      /\ Truthy(result.args.language) =>
           result.list[k] \in SeqToSet(searchByLanguage(rules, result.args.language.s))
      /\ Truthy(result.args.tags) =>
           result.list[k] \in SeqToSet(searchByTags(rules, result.args.tags.a).list)

\* a bundle was returned by recommendBundle, called directly or as a tool
NamedBundle ==
  result.op \in {"recommendBundle", "recommend_bundle"} /\ ~result.threw

\* the field and a hyphen if the context sets the field
Hyphened(v) == IF v.t = "string" /\ v.s # "" THEN v.s \o "-" ELSE ""

\* C27: the name of a bundle is made of the context alone: the fields present
\* among language, type, framework, in that order, each followed by a hyphen,
\* then "bundle"; it is "custom-bundle" when none of the three is present
C27_BundleName ==
  NamedBundle =>
    LET c == result.context
        stem == Hyphened(c.language) \o Hyphened(c.type) \o Hyphened(c.framework)
    IN result.name = IF stem = "" THEN "custom-bundle" ELSE stem \o "bundle"

\* on a loaded index a bundle was named for a context that sets none of the
\* three fields
C27_Witness ==
  /\ NamedBundle
  /\ rules # <<>>
  /\ result.context.type = Undefined
  /\ result.context.language = Undefined
  /\ result.context.framework = Undefined
  /\ result.context.priorities # Undefined
  /\ result.name = "custom-bundle"

ServerOps == {"list_rules", "get_rule", "recommend_bundle", "list_resources"}

\* C30: in the MCP server a request handled while initialize is pending, or
\* after it was rejected, is answered at once from the empty index (an empty
\* listing, an empty bundle, "Rule not found"); a request handled after
\* initialize resolved is answered from the whole loaded index; the index is
\* never seen partly loaded
C30_RequestsDuringLoad ==
  /\ server \in {"loading", "failed"} => rules = <<>>
  /\ server = "ready" => rules = loadAllRules(disk)
  /\ (result.op \in ServerOps /\ result.served \in {"loading", "failed"}) =>
       /\ result.list = <<>>
       /\ result.threw <=> result.op = "get_rule"
  /\ (result.op \in ServerOps /\ result.served = "ready") =>
       /\ (result.op = "list_resources"
             \/ (result.op = "list_rules" /\ result.args = NoListArgs))
            => (~result.threw /\ result.list = loadAllRules(disk))
       /\ result.op = "get_rule" =>
            (result.threw <=> ~Known(result.id))
       /\ \A k \in 1..Len(result.list) :
            \E i \in 1..Len(rules) : rules[i] = result.list[k]

\* a listing asked for while initialize was pending came back empty, and the
\* index of two rules has been loaded since
C30_Witness ==
  /\ result.op = "list_rules"
  /\ result.args = NoListArgs
  /\ result.served = "loading"
  /\ result.list = <<>>
  /\ server = "ready"
  /\ Len(rules) = 2

----------------------------------------------------------------------------
(* What extraction makes of a document *)

\* C24: the category of a rule is the category its header declares; only if
\* the header declares none is it the first path segment when that is one of
\* the categories, and general otherwise
C24_HeaderCategoryWins ==
  Loaded =>
    \A i \in 1..Len(rules) :
      LET f == DocumentOf(rules[i])
      IN rules[i].metadata.category =
           IF Truthy(f.fm.category) THEN f.fm.category.s
           ELSE IF f.path[1] \in SeqToSet(validCategories) THEN f.path[1]
           ELSE "general"

\* C25: the language of a rule is the language its header declares, and
\* searchByLanguage(X) returns every rule whose header declares language X
C25_HeaderLanguageWins ==
  /\ Loaded =>
       \A i \in 1..Len(rules) :
         Truthy(DocumentOf(rules[i]).fm.language) =>
           rules[i].metadata.language = DocumentOf(rules[i]).fm.language
  /\ (initialized /\ result.op = "searchByLanguage") =>
       \A i \in 1..Len(rules) :
         DocumentOf(rules[i]).fm.language = Str(result.language) =>
           \E k \in 1..Len(result.list) : result.list[k] = rules[i]

\* the places in languageMap of the names that occur in the lowercased text
LexiconHits(text) ==
  {n \in 1..Len(languageMap) : StrIncludes(ToLowerCase(text), languageMap[n][1])}

\* C26: an inferred language is the token of the first lexicon name found in
\* the lowercased file name; failing that, the tokens of all lexicon names
\* found in the lowercased body, none of them twice; failing that, "universal"
C26_InferredLanguage ==
  Loaded =>
    \A i \in 1..Len(rules) :
      LET f == DocumentOf(rules[i])
          inName == LexiconHits(Basename(f.path))
          inBody == LexiconHits(f.body)
          language == rules[i].metadata.language
      IN IF inName # {}
         THEN language =
                Str(languageMap[CHOOSE n \in inName : \A m \in inName : n <= m][2])
         ELSE IF inBody # {}
         THEN /\ language.t = "array"
              /\ SeqToSet(language.a) = {languageMap[n][2] : n \in inBody}
              /\ Injective(language.a)
         ELSE language = Str("universal")

\* C28: a discovered document gives the index one rule at most: no two rules
\* of the index have the same filePath, and every filePath is that of a
\* discovered file
C28_OneRulePerFile ==
  Loaded =>
    LET found == FindRuleFiles(disk)
    IN /\ \A i, j \in 1..Len(rules) :
            i # j => rules[i].filePath # rules[j].filePath
       /\ Len(rules) <= Len(found)
       /\ \A i \in 1..Len(rules) :
            \E k \in 1..Len(found) : found[k].path = rules[i].filePath

\* the index was loaded from a rules.md found by the first pattern and a file
\* found by the second
C28_Witness ==
  /\ Loaded
  /\ Len(rules) = Len(disk)
  /\ \E i, j \in 1..Len(rules) :
       /\ MatchesRulesMd(rules[i].filePath)
       /\ MatchesDashRulesMd(rules[j].filePath)

----------------------------------------------------------------------------
(* The facets of a bundle *)

\* the rule lists the framework as one of its applicability.frameworks
ListsFramework(rule, framework) ==
  /\ rule.metadata.applicability.t = "object"
  /\ rule.metadata.applicability.frameworks.t = "array"
  /\ \E k \in 1..Len(rule.metadata.applicability.frameworks.a) :
       rule.metadata.applicability.frameworks.a[k] = framework

\* the rules of the index that the facets of the context match
FacetMatches(c) ==
  SeqToSet(searchByCategory(rules, "general"))
    \cup (IF Truthy(c.type)
          THEN SeqToSet(searchByCategory(rules, c.type.s)) ELSE {})
    \cup (IF Truthy(c.language)
          THEN SeqToSet(searchByLanguage(rules, c.language.s)) ELSE {})
    \cup (IF Truthy(c.priorities)
          THEN UNION {SeqToSet(searchByTags(rules, <<c.priorities.a[k]>>).list) :
                        k \in 1..Len(c.priorities.a)}
          ELSE {})
    \cup (IF Truthy(c.framework)
          THEN {rules[i] : i \in {j \in 1..Len(rules) :
                                    ListsFramework(rules[j], c.framework.s)}}
          ELSE {})

Occurrences(list, rule) == Cardinality({k \in 1..Len(list) : list[k] = rule})

\* C29: the framework facet appends exactly the rules that list the
\* context's framework as an element of applicability.frameworks, in index
\* order, after the matches of the other facets; a rule that several facets
\* match is in the bundle once
C29_FrameworkFacet ==
  (BundleReturned /\ Truthy(result.context.framework)) =>
    LET selected(rule) == ListsFramework(rule, result.context.framework.s)
        sel == SelectSeq(rules, selected)
        others == recommendBundle(rules,
                    [result.context EXCEPT !.framework = Undefined]).working
    IN /\ result.working = others \o sel
       /\ \A i \in 1..Len(rules) : Occurrences(result.list, rules[i]) <= 1
       /\ \A i \in 1..Len(rules) :
            Occurrences(result.working, rules[i]) >= 1 =>
              \E k \in 1..Len(result.list) : IdOf(result.list[k]) = IdOf(rules[i])

\* a rule matched by the framework facet and by a priority facet is in the
\* bundle once, and a rule that lists "react-native" was not selected for
\* "react"
C29_Witness ==
  /\ BundleReturned
  /\ result.context.framework = Str("react")
  /\ Truthy(result.context.priorities)
  /\ Len(result.context.priorities.a) = 2
  /\ \E i \in 1..Len(rules) :
       /\ ListsFramework(rules[i], "react")
       /\ Occurrences(result.working, rules[i]) >= 3
       /\ Occurrences(result.list, rules[i]) = 1
  /\ \E i \in 1..Len(rules) :
       /\ ListsFramework(rules[i], "react-native")
       /\ ~ListsFramework(rules[i], "react")
       /\ result.working[Len(result.working)] # rules[i]
====
